---- MODULE Spec2Model ----
(***************************************************************************)
(* Model of extension/src/lib.rs: the LaravelExtension language-server     *)
(* provisioning routine (server_script / install_server) and the two       *)
(* slash-command handlers (run_slash_command,                              *)
(* complete_slash_command_argument).                                       *)
(*                                                                         *)
(* Strings that the code builds with format! / join are sequences of text  *)
(* fragments, so that "contains" and "equals" stay checkable.  Paths are   *)
(* sequences of path components.  Option<T> is a sequence of length <= 1.  *)
(***************************************************************************)
EXTENDS Integers, Sequences, FiniteSets, TLC

VARIABLES
    server_script_path,  \* LaravelExtension.server_script_path : Option<String>
    fs,                  \* the paths that exist on disk (what fs::metadata sees)
    pc,                  \* position of the host's current server_script call
    events,              \* what the current/last call sent to the host, in order
    npm_result,          \* install_server's local `result` : Option<Result<()>>
    result,              \* what the last completed server_script call returned
    calls,               \* number of server_script calls begun
    stale,               \* the current/last call held a cached path that was gone
    installed,           \* some completed call returned through the Ok(()) arm
    succeeded,           \* some completed call returned Ok(_)
    command,             \* slash command name handed to a slash handler
    args,                \* slash command argument list
    out                  \* value a slash handler returned for (command, args)

vars == <<server_script_path, fs, pc, events, npm_result, result, calls,
          stale, installed, succeeded, command, args, out>>

resolveVars == <<server_script_path, fs, pc, events, npm_result, result, calls,
                 stale, installed, succeeded>>

slashVars == <<command, args, out>>

-----------------------------------------------------------------------------
(* Bounds *)

MaxCalls == 4

MaxArgs == 2

-----------------------------------------------------------------------------
(* Values *)

None == <<>>

Some(v) == <<v>>

Ok(v) == [ok |-> TRUE, val |-> v]

Err(e) == [ok |-> FALSE, val |-> e]

-----------------------------------------------------------------------------
(* The filesystem and the installer, as the code sees them *)

server_dir == <<"node_modules", "laravel-language-server">>

server_entry_nodist == server_dir \o <<"server.js">>

server_entry == server_dir \o <<"dist", "server.js">>

\* Disk contents that matter: nothing, the package directory without its
\* entry point, or the package directory with it.
FsStates == {{}, {server_dir}, {server_dir, server_entry}}

\* fs::metadata(path).is_ok()
Exists(path) == path \in fs

\* Error texts the external installer may fail with.
InstallerErrors == {<<"ENOTFOUND">>, <<"EACCES", "permission denied">>}

NpmOutcomes == {Ok(<<>>)} \cup {Err(e) : e \in InstallerErrors}

-----------------------------------------------------------------------------
(* What the extension sends to the host *)

Status(name, msg) == [kind |-> "status", name |-> name, arg |-> msg]

CheckingForUpdate == Status("CheckingForUpdate", <<>>)

Downloading == Status("Downloading", <<>>)

StatusNone == Status("None", <<>>)

Failed(msg) == Status("Failed", msg)

\* format!("Failed to install Laravel Language Server: {e}")
FailedMessage_dropped(e) == <<"Failed to install Laravel Language Server: ">>

FailedMessage(e) == <<"Failed to install Laravel Language Server: ">> \o e

\* zed::npm_install_package("laravel-language-server", "latest")
NpmInstallPackage_untagged ==
    [kind |-> "npm_install_package", name |-> "laravel-language-server",
     arg |-> <<>>]

NpmInstallPackage ==
    [kind |-> "npm_install_package", name |-> "laravel-language-server",
     arg |-> <<"latest">>]

-----------------------------------------------------------------------------
(* server_script and install_server *)

\* if let Some(path) = &self.server_script_path { if fs::metadata(path).is_ok()
CacheHit_unchecked == server_script_path # None

CacheHit_never == FALSE

CacheHit == server_script_path # None /\ Exists(server_script_path[1])

\* if fs::metadata(&server_entry).is_ok()
AlreadyInstalled_skipped == FALSE

AlreadyInstalled == Exists(server_entry)

\* let server_path = self.install_server(..)?;
\* self.server_script_path = Some(server_path.clone());
CacheAfter_forgetful(r) == server_script_path

CacheAfter_poisoned(r) == IF r.ok THEN Some(r.val) ELSE None

CacheAfter(r) == IF r.ok THEN Some(r.val) ELSE server_script_path

\* install_server returned r to server_script, which returns to the host
ReturnFromInstall(r) ==
    /\ server_script_path' = CacheAfter(r)
    /\ result' = Some(r)
    /\ succeeded' = (succeeded \/ r.ok)
    /\ pc' = "idle"

Init ==
    /\ server_script_path = None
    /\ fs \in FsStates
    /\ pc = "idle"
    /\ events = <<>>
    /\ npm_result = None
    /\ result = None
    /\ calls = 0
    /\ stale = FALSE
    /\ installed = FALSE
    /\ succeeded = FALSE
    /\ command = "laravel:make"
    /\ args = <<>>
    /\ out = None

\* The host calls server_script: lines 10-19, up to the call of install_server.
ServerScript ==
    /\ pc = "idle"
    /\ calls < MaxCalls
    /\ calls' = calls + 1
    /\ events' = <<>>
    /\ npm_result' = None
    /\ stale' = (server_script_path # None /\ ~Exists(server_script_path[1]))
    /\ IF CacheHit
         THEN /\ result' = Some(Ok(server_script_path[1]))
              /\ succeeded' = TRUE
              /\ pc' = "idle"
         ELSE /\ result' = None
              /\ succeeded' = succeeded
              /\ pc' = "install_server"
    /\ UNCHANGED <<server_script_path, fs, installed>>
    /\ UNCHANGED slashVars

\* install_server lines 27-47: report, look for the entry point, and either
\* return it (server_script then caches it) or announce the download.
InstallServerCheck ==
    /\ pc = "install_server"
    /\ IF AlreadyInstalled
         THEN /\ events' = events \o <<CheckingForUpdate, StatusNone>>
              /\ ReturnFromInstall(Ok(server_entry))
         ELSE /\ events' = events \o <<CheckingForUpdate, Downloading>>
              /\ pc' = "npm_install_package"
              /\ UNCHANGED <<server_script_path, result, succeeded>>
    /\ UNCHANGED <<fs, npm_result, calls, stale, installed>>
    /\ UNCHANGED slashVars

\* install_server lines 51-70: the blocking installer call and the match on
\* its result.  A successful install creates the package directory; whether
\* the package ships dist/server.js is the registry's business.
InstallServerNpm ==
    /\ pc = "npm_install_package"
    /\ \E r \in NpmOutcomes :
          /\ npm_result' = Some(r)
          /\ IF r.ok
               THEN /\ fs' \in {f \in FsStates : server_dir \in f /\ fs \subseteq f}
                    /\ events' = events \o <<NpmInstallPackage, StatusNone>>
                    /\ installed' = TRUE
                    /\ ReturnFromInstall(Ok(server_entry))
               ELSE /\ fs' = fs
                    /\ events' = events \o
                                   <<NpmInstallPackage, Failed(FailedMessage(r.val))>>
                    /\ installed' = installed
                    /\ ReturnFromInstall(Err(r.val))
    /\ UNCHANGED <<calls, stale>>
    /\ UNCHANGED slashVars

\* Something else (the user, another tool) changes the disk at any time.
FsChange ==
    /\ \E f \in FsStates \ {fs} : fs' = f
    /\ UNCHANGED <<server_script_path, pc, events, npm_result, result, calls,
                   stale, installed, succeeded>>
    /\ UNCHANGED slashVars

Next ==
    \/ ServerScript
    \/ InstallServerCheck
    \/ InstallServerNpm
    \/ FsChange

Spec == Init /\ [][Next]_vars

-----------------------------------------------------------------------------
(* Slash commands *)

CommandNames == {"laravel:make", "laravel:routes", "laravel:migrate", "laravel:seed"}

ArgWords == {"", "fresh", "rollback", "reset", "status", "run", "model"}

ArgLists == UNION {[1..n -> ArgWords] : n \in 0..MaxArgs}

\* _args.join(" "), as the fragments it concatenates
RECURSIVE join(_, _)
join(list, sep) ==
    IF list = <<>> THEN <<>>
    ELSE IF Len(list) = 1 THEN <<list[1]>>
    ELSE <<list[1], sep>> \o join(Tail(list), sep)

\* String::is_empty on a string given by its fragments
is_empty(str) == \A i \in 1..Len(str) : str[i] = ""

\* The Markdown code fence (three backquotes) that the templates open and
\* close a block with; a TLA+ string cannot hold a backquote.
fence == "<fence>"

SlashCommandOutput(text) == [text |-> text, sections |-> <<>>]

make_usage ==
    "Usage: /laravel:make <type> <name> [options]\n\nExamples:\n  /laravel:make model User --migration --factory\n  /laravel:make controller UserController --resource\n  /laravel:make migration create_posts_table\n  /laravel:make livewire Counter\n  /laravel:make request StoreUserRequest\n  /laravel:make middleware EnsureTokenIsValid"

\* the "laravel:make" arm of run_slash_command
run_make(list) ==
    LET args_str == join(list, " ") IN
    IF is_empty(args_str)
      THEN SlashCommandOutput(<<make_usage>>)
      ELSE SlashCommandOutput(
             <<"Run this artisan command in your Laravel project:\n\n", fence,
               "bash\nphp artisan make:">>
             \o args_str
             \o <<"\n", fence,
                  "\n\nThis will generate the corresponding Laravel file with the proper boilerplate.">>)

\* _args.first().map(|s| s.as_str()).unwrap_or("status")
migrate_action(list) == IF list = <<>> THEN "status" ELSE list[1]

\* match action { "fresh" => .., "rollback" => .., "reset" => .., "status" => .., _ => .. }
migrate_cmd_pasted(action) ==
    CASE action = "fresh" -> "php artisan migrate:fresh"
      [] action = "rollback" -> "php artisan migrate:rollback"
      [] action = "reset" -> "php artisan migrate:rollback"
      [] action = "status" -> "php artisan migrate:status"
      [] OTHER -> "php artisan migrate"

migrate_cmd(action) ==
    CASE action = "fresh" -> "php artisan migrate:fresh"
      [] action = "rollback" -> "php artisan migrate:rollback"
      [] action = "reset" -> "php artisan migrate:reset"
      [] action = "status" -> "php artisan migrate:status"
      [] OTHER -> "php artisan migrate"

run_slash_command(name, list) ==
    CASE name = "laravel:make" -> Ok(run_make(list))
      [] name = "laravel:routes" ->
           Ok(SlashCommandOutput(
                <<"Run this command to see all registered routes:\n\n", fence,
                  "bash\nphp artisan route:list\n", fence>>))
      [] name = "laravel:migrate" ->
           Ok(SlashCommandOutput(
                <<fence, "bash\n", migrate_cmd(migrate_action(list)), "\n", fence>>))
      [] OTHER -> Ok(SlashCommandOutput(<<"Unknown command: ", name>>))

SlashCommandArgumentCompletion(label, new_text, run_command) ==
    [label |-> label, new_text |-> new_text, run_command |-> run_command]

make_completions ==
    << SlashCommandArgumentCompletion("model", "model ", FALSE),
       SlashCommandArgumentCompletion("controller", "controller ", FALSE),
       SlashCommandArgumentCompletion("migration", "migration ", FALSE),
       SlashCommandArgumentCompletion("request", "request ", FALSE),
       SlashCommandArgumentCompletion("resource", "resource ", FALSE),
       SlashCommandArgumentCompletion("middleware", "middleware ", FALSE),
       SlashCommandArgumentCompletion("seeder", "seeder ", FALSE),
       SlashCommandArgumentCompletion("factory", "factory ", FALSE),
       SlashCommandArgumentCompletion("policy", "policy ", FALSE),
       SlashCommandArgumentCompletion("event", "event ", FALSE),
       SlashCommandArgumentCompletion("listener", "listener ", FALSE),
       SlashCommandArgumentCompletion("job", "job ", FALSE),
       SlashCommandArgumentCompletion("mail", "mail ", FALSE),
       SlashCommandArgumentCompletion("notification", "notification ", FALSE),
       SlashCommandArgumentCompletion("livewire", "livewire ", FALSE),
       SlashCommandArgumentCompletion("rule", "rule ", FALSE),
       SlashCommandArgumentCompletion("test", "test ", FALSE) >>

migrate_completions ==
    << SlashCommandArgumentCompletion("run", "run", TRUE),
       SlashCommandArgumentCompletion("fresh", "fresh", TRUE),
       SlashCommandArgumentCompletion("rollback", "rollback", TRUE),
       SlashCommandArgumentCompletion("status", "status", TRUE) >>

\* the "laravel:make" arm of complete_slash_command_argument
complete_make_always(list) == make_completions

complete_make(list) == IF list = <<>> THEN make_completions ELSE <<>>

complete_slash_command_argument(name, list) ==
    CASE name = "laravel:make" -> Ok(complete_make(list))
      [] name = "laravel:migrate" -> Ok(migrate_completions)
      [] OTHER -> Ok(<<>>)

\* The host hands a slash handler any command name with any argument list.
SlashInit ==
    /\ server_script_path = None
    /\ fs = {}
    /\ pc = "idle"
    /\ events = <<>>
    /\ npm_result = None
    /\ result = None
    /\ calls = 0
    /\ stale = FALSE
    /\ installed = FALSE
    /\ succeeded = FALSE
    /\ command \in CommandNames
    /\ args \in ArgLists
    /\ out = None

RunSlashCommand ==
    /\ out = None
    /\ out' = Some([handler |-> "run_slash_command",
                    ret |-> run_slash_command(command, args)])
    /\ UNCHANGED <<command, args>>
    /\ UNCHANGED resolveVars

CompleteSlashCommandArgument ==
    /\ out = None
    /\ out' = Some([handler |-> "complete_slash_command_argument",
                    ret |-> complete_slash_command_argument(command, args)])
    /\ UNCHANGED <<command, args>>
    /\ UNCHANGED resolveVars

SlashNext ==
    \/ RunSlashCommand
    \/ CompleteSlashCommandArgument

SlashSpec == SlashInit /\ [][SlashNext]_vars

-----------------------------------------------------------------------------
(* Properties of server_script / install_server, checked under Spec *)

Range(s) == {s[i] : i \in 1..Len(s)}

\* needle occurs in hay as a contiguous run of fragments
Contains(hay, needle) ==
    \E i \in 1..(Len(hay) + 1) :
        /\ i + Len(needle) - 1 <= Len(hay)
        /\ SubSeq(hay, i, i + Len(needle) - 1) = needle

\* The entry-point path, written out as the documentation gives it.
EntryPointPath == <<"node_modules", "laravel-language-server", "dist", "server.js">>

\* The installer invocation the documentation describes.
LatestInstall ==
    [kind |-> "npm_install_package", name |-> "laravel-language-server",
     arg |-> <<"latest">>]

\* This step begins a server_script call.
CallBegins == calls' = calls + 1

\* This step takes the warm-cache branch: the cached path comes back at once,
\* nothing is reported and the installer is not run.
WarmReturn ==
    /\ server_script_path = Some(EntryPointPath)
    /\ pc' = "idle"
    /\ result' = Some(Ok(EntryPointPath))
    /\ events' = <<>>
    /\ npm_result' = None
    /\ server_script_path' = server_script_path

\* This step is the installer call, and it succeeds / fails.
InstallSucceeds ==
    pc = "npm_install_package" /\ npm_result' # None /\ npm_result'[1].ok

InstallFails ==
    pc = "npm_install_package" /\ npm_result' # None /\ ~npm_result'[1].ok

\* The last call has completed with an error.
LastCallFailed == pc = "idle" /\ result # None /\ ~result[1].ok

NameCount(log, name) == Cardinality({i \in 1..Len(log) : log[i].name = name})

KindCount(log, kind) == Cardinality({i \in 1..Len(log) : log[i].kind = kind})

C1_InstallReturnsAndCaches ==
    InstallSucceeds =>
        /\ result' = Some(Ok(EntryPointPath))
        /\ server_script_path' = Some(EntryPointPath)

\* C1 as stated: when neither a valid cached path nor the entry-point file
\* exists and the installer succeeds, the call returns the entry-point path
\* and caches it, and EVERY later call takes the warm-cache branch.
C1_Original ==
    [][ /\ C1_InstallReturnsAndCaches
        /\ (installed /\ CallBegins) => WarmReturn ]_vars

\* C1 amended: when neither a valid cached path nor the entry-point file
\* exists and the installer succeeds, the call returns the entry-point path
\* and caches it, and every later call that finds that path on disk takes the
\* warm-cache branch.
C1_InstallThenWarmWhileOnDisk ==
    [][ /\ C1_InstallReturnsAndCaches
        /\ (installed /\ CallBegins /\ Exists(EntryPointPath)) => WarmReturn ]_vars

\* An install succeeded in an earlier call and the last call was warm.
C1_Witness ==
    /\ installed
    /\ pc = "idle"
    /\ calls >= 2
    /\ events = <<>>
    /\ result = Some(Ok(EntryPointPath))
    /\ server_script_path = Some(EntryPointPath)

C2_ErrorCarriesInstallerText ==
    InstallFails =>
        /\ pc' = "idle"
        /\ result' # None
        /\ ~result'[1].ok
        /\ Len(npm_result'[1].val) > 0
        /\ Contains(result'[1].val, npm_result'[1].val)

\* C2 as stated: when the installer fails the call returns an error that
\* contains the installer's error text, the cache is unset after the call,
\* and the next call runs the whole check/install sequence again.
C2_Original ==
    [][ /\ C2_ErrorCarriesInstallerText
        /\ InstallFails => server_script_path' = None
        /\ (LastCallFailed /\ CallBegins) => (pc' = "install_server" /\ events' = <<>>)
      ]_vars

\* C2 amended: when the installer fails the call returns an error that
\* contains the installer's error text and the cache is left as it was before
\* the call (no step of a call that has not returned changes it; unset stays
\* unset, a cached path stays cached), so the next call runs the whole
\* check/install sequence again unless a cached path is held and is on disk.
C2_FailureLeavesCacheAsItWas ==
    [][ /\ C2_ErrorCarriesInstallerText
        /\ InstallFails => server_script_path' = server_script_path
        /\ pc' # "idle" => server_script_path' = server_script_path
        /\ (LastCallFailed /\ CallBegins
              /\ ~(server_script_path # None /\ Exists(server_script_path[1])))
             => (pc' = "install_server" /\ events' = <<>> /\ result' = None)
      ]_vars

\* A retry after a failed call ran the installer again, and failed again.
C2_Witness ==
    /\ LastCallFailed
    /\ calls >= 2
    /\ server_script_path = None
    /\ npm_result # None
    /\ result[1].val = npm_result[1].val

\* C3: a call that holds a cached path which is on disk returns exactly that
\* path at once; the installer is not run, nothing is reported and the cache
\* field keeps its value.
C3_WarmCacheReturnsCachedPath ==
    [][ (CallBegins /\ server_script_path # None /\ Exists(server_script_path[1]))
          => /\ pc' = "idle"
             /\ result' = Some(Ok(server_script_path[1]))
             /\ events' = <<>>
             /\ npm_result' = None
             /\ server_script_path' = server_script_path ]_vars

\* A warm return with no install ever made (the cache came from discovery).
C3_Witness ==
    /\ pc = "idle"
    /\ calls >= 2
    /\ ~installed
    /\ ~stale
    /\ events = <<>>
    /\ result = Some(Ok(EntryPointPath))

\* C4: with no cache held, the call enters install_server, and if the
\* entry-point file is on disk when it looks, it returns that path without
\* running the installer, having reported CheckingForUpdate then None and
\* never Downloading.
C4_DiscoveryWithoutInstall ==
    [][ /\ (CallBegins /\ server_script_path = None)
             => (pc' = "install_server" /\ events' = <<>>)
        /\ (pc = "install_server" /\ pc' # pc /\ server_script_path = None
              /\ Exists(EntryPointPath))
             => /\ pc' = "idle"
                /\ result' = Some(Ok(EntryPointPath))
                /\ events' = <<CheckingForUpdate, StatusNone>>
                /\ npm_result' = None ]_vars

\* The first call found the file that was installed out of band.
C4_Witness ==
    /\ pc = "idle"
    /\ calls = 1
    /\ events = <<CheckingForUpdate, StatusNone>>
    /\ result = Some(Ok(EntryPointPath))
    /\ npm_result = None

\* C5: in every call a Failed status is reported iff the call returns an
\* error; it is reported once, as the last event; its message embeds the
\* installer's error text, which is also what the caller gets; and the
\* installer is run at most once in the call.
C5_FailureReportedOnceOnEachChannel ==
    /\ NameCount(events, "Failed") <= 1
    /\ KindCount(events, "npm_install_package") <= 1
    /\ pc # "idle" => NameCount(events, "Failed") = 0
    /\ (pc = "idle" /\ result # None)
         => (NameCount(events, "Failed") = 1 <=> ~result[1].ok)
    /\ \A i \in 1..Len(events) :
         events[i].name = "Failed"
           => /\ i = Len(events)
              /\ LastCallFailed
              /\ npm_result = Some(Err(result[1].val))
              /\ Len(result[1].val) > 0
              /\ Contains(events[i].arg, result[1].val)
              /\ events[i].arg # result[1].val

\* A failed call: the status and the returned error both carry the text.
C5_Witness ==
    /\ LastCallFailed
    /\ result[1].val = <<"EACCES", "permission denied">>
    /\ events[Len(events)] =
         Failed(<<"Failed to install Laravel Language Server: ",
                  "EACCES", "permission denied">>)

\* C8: a call that is not answered from the warm cache emits exactly
\* (CheckingForUpdate, None) when it finds the file,
\* (CheckingForUpdate, Downloading, install of laravel-language-server at
\* latest, None) when the install succeeds, and (CheckingForUpdate,
\* Downloading, install, Failed) when it fails; nothing is emitted before
\* install_server is entered.
C8_StatusSequences ==
    [][ /\ CallBegins => events' = <<>>
        /\ pc = "install_server" => events = <<>>
        /\ (pc = "install_server" /\ pc' = "idle")
             => events' = <<CheckingForUpdate, StatusNone>>
        /\ (pc = "install_server" /\ pc' = "npm_install_package")
             => events' = <<CheckingForUpdate, Downloading>>
        /\ (pc = "install_server" /\ pc' # pc)
             => pc' \in {"idle", "npm_install_package"}
        /\ InstallSucceeds
             => /\ pc' = "idle"
                /\ events' = <<CheckingForUpdate, Downloading, LatestInstall, StatusNone>>
        /\ InstallFails
             => /\ pc' = "idle"
                /\ Len(events') = 4
                /\ SubSeq(events', 1, 3) = <<CheckingForUpdate, Downloading, LatestInstall>>
                /\ events'[4].name = "Failed"
        /\ (pc = "npm_install_package" /\ pc' # pc) => (InstallSucceeds \/ InstallFails)
      ]_vars

\* A completed call that went through the whole download sequence.
C8_Witness ==
    /\ pc = "idle"
    /\ result = Some(Ok(EntryPointPath))
    /\ events = <<CheckingForUpdate, Downloading, LatestInstall, StatusNone>>

\* C9: a call whose cached path is gone from disk is not answered from the
\* cache: it enters install_server, reports CheckingForUpdate first, and if
\* it succeeds the cache holds the path it returned.
C9_StaleCacheIsResolvedAgain ==
    /\ (stale /\ pc = "idle")
         => /\ result # None
            /\ Len(events) >= 2
            /\ events[1] = CheckingForUpdate
            /\ result[1].ok => (/\ server_script_path = Some(result[1].val)
                                /\ result[1].val = EntryPointPath)
    /\ (stale /\ pc # "idle") => result = None
    /\ (stale /\ pc = "npm_install_package")
         => events = <<CheckingForUpdate, Downloading>>

\* A call that found its cached path gone reinstalled and cached the path.
C9_Witness ==
    /\ stale
    /\ pc = "idle"
    /\ npm_result = Some(Ok(<<>>))
    /\ result = Some(Ok(EntryPointPath))
    /\ server_script_path = Some(EntryPointPath)

\* C10: the cache field is unset or holds the fixed entry-point path; it is
\* set only after some call returned success; only a step that returns
\* success changes it; and once set it is never unset again.
C10_CacheInvariant ==
    [][ /\ server_script_path \in {None, Some(EntryPointPath)}
        /\ server_script_path # None => succeeded
        /\ server_script_path' # server_script_path
             => (pc' = "idle" /\ result' # None /\ result'[1].ok)
        /\ server_script_path # None => server_script_path' # None ]_vars

\* The cache is set and the last call, which failed, left it set.
C10_Witness ==
    /\ LastCallFailed
    /\ server_script_path = Some(EntryPointPath)
    /\ succeeded

-----------------------------------------------------------------------------
(* Properties of the slash-command handlers, checked under SlashSpec *)

\* run_slash_command / complete_slash_command_argument has answered `name`.
Ran(name) ==
    out # None /\ out[1].handler = "run_slash_command" /\ command = name

Completed(name) ==
    out # None /\ out[1].handler = "complete_slash_command_argument" /\ command = name

\* The returned text has `piece` as one of its fragments.
TextHas(piece) == out[1].ret.ok /\ piece \in Range(out[1].ret.val.text)

C6_NamedActions ==
    Ran("laravel:migrate") =>
        /\ args = <<>> => TextHas("php artisan migrate:status")
        /\ (args # <<>> /\ args[1] = "fresh") => TextHas("php artisan migrate:fresh")
        /\ (args # <<>> /\ args[1] = "rollback") => TextHas("php artisan migrate:rollback")
        /\ (args # <<>> /\ args[1] = "reset") => TextHas("php artisan migrate:reset")

\* C6 as stated: laravel:migrate with no argument gives migrate:status, with
\* first argument fresh / rollback / reset gives migrate:fresh / :rollback /
\* :reset, and with ANY other first argument gives the plain
\* "php artisan migrate".
C6_Original ==
    /\ C6_NamedActions
    /\ (Ran("laravel:migrate") /\ args # <<>>
          /\ args[1] \notin {"fresh", "rollback", "reset"})
         => TextHas("php artisan migrate")

\* C6 amended: laravel:migrate with no argument gives migrate:status, with
\* first argument fresh / rollback / reset / status gives migrate:fresh /
\* :rollback / :reset / :status, and with any other first argument gives the
\* plain "php artisan migrate"; the handler never fails.
C6_MigrateCommandText ==
    /\ C6_NamedActions
    /\ (Ran("laravel:migrate") /\ args # <<>> /\ args[1] = "status")
         => (TextHas("php artisan migrate:status") /\ ~TextHas("php artisan migrate"))
    /\ (Ran("laravel:migrate") /\ args # <<>>
          /\ args[1] \notin {"fresh", "rollback", "reset", "status"})
         => TextHas("php artisan migrate")
    /\ Ran("laravel:migrate") => out[1].ret.ok

\* "reset" was asked for, with a further argument, and answered.
C6_Witness ==
    /\ Ran("laravel:migrate")
    /\ Len(args) = 2
    /\ args[1] = "reset"
    /\ TextHas("php artisan migrate:reset")

\* C7: completion for laravel:make never fails; with no argument supplied
\* it returns the fixed list of the seventeen generator kinds (each inserted
\* with a trailing space and not run), and with any argument supplied it
\* returns the empty list.
C7_MakeCompletion ==
    Completed("laravel:make") =>
        /\ out[1].ret.ok
        /\ args = <<>> =>
             /\ Len(out[1].ret.val) = 17
             /\ [i \in 1..17 |-> out[1].ret.val[i].label] =
                  <<"model", "controller", "migration", "request", "resource",
                    "middleware", "seeder", "factory", "policy", "event",
                    "listener", "job", "mail", "notification", "livewire",
                    "rule", "test">>
             /\ \A i \in 1..17 : ~out[1].ret.val[i].run_command
        /\ args # <<>> => out[1].ret.val = <<>>

\* Completion was asked for after "model" had been typed: nothing is offered.
C7_Witness ==
    /\ Completed("laravel:make")
    /\ args = <<"model">>
    /\ out[1].ret = Ok(<<>>)

====
